---- MODULE Spec2Model ----
(***************************************************************************)
(* CreatorShelf: the short-link redirect handler (GET /r/:shortCode), the  *)
(* scan-event recorder, the scan-analytics aggregator and the short-code   *)
(* collision-avoidance generator used by createSparkCode, modelled from    *)
(* the TypeScript sources.                                                 *)
(*                                                                         *)
(* Six specifications share the variables:                                 *)
(*   Spec           the redirect handler serving requests against a link   *)
(*                  table;                                                 *)
(*   SpecCreate     concurrent createSparkCode calls filling the link      *)
(*                  table;                                                 *)
(*   SpecLib        parseUserAgent, the client-IP expression and           *)
(*                  generateShortCode called on their own;                 *)
(*   SpecAnalytics  getAnalyticsForCode over a growing scan_events table;  *)
(*   SpecLinks      updateSparkCode on the links of two users;             *)
(*   SpecAuth       signIn, signOut and hydrate of the auth store.         *)
(***************************************************************************)
EXTENDS Integers, Sequences, FiniteSets, TLC

VARIABLES
    env,          \* process.env: [url, key] read by getSupabaseAdmin
    clock,        \* the wall clock (new Date()), in ticks
    spark_codes,  \* table spark_codes: a set of rows
    scan_events,  \* table scan_events: the rows in insertion order
    req,          \* the redirect requests: handler position and locals
    creator,      \* the createSparkCode calls: position and locals
    auth,         \* the auth store: [user, status]
    call          \* the last call of the app's library functions: [op, arg, result];
                  \* under SpecAuth the session and the calls in flight

vars == <<env, clock, spark_codes, scan_events, req, creator, auth, call>>

----------------------------------------------------------------------------
(* Bounds of the model *)

MaxRequests == 2
MaxClock == 2
MaxCreates == 3
\* scan events in the table
MaxEvents == 4
\* the .limit(500) of the scan-event query, scaled to the tables of the model
ScanLimit == 3

ModelDraws == 2
\* hydrate calls in flight together
MaxHydrates == 2

Reqs == 1..MaxRequests

----------------------------------------------------------------------------
(* Values *)

\* SQL NULL / JS null or undefined of a string-valued field or header
Null == "<null>"
\* SQL NULL of expires_at (timestamps are ticks >= 0)
NullTs == -1

\* JS truthiness of a string | null value
Truthy(s) == s # Null /\ s # ""

\* no library call has been made
NoCall == [op |-> "none", arg |-> <<>>, result |-> <<>>]

\* a JS string as the sequence of its characters
Unknown == <<"u", "n", "k", "n", "o", "w", "n">>
AbsentHeader == <<"<absent>">>

----------------------------------------------------------------------------
(* getSupabaseAdmin *)

\* faulty variant: only the URL is required
getSupabaseAdminUrlOnly(e) ==
    IF e.url = "" THEN FALSE ELSE TRUE

\* the client, or FALSE for null
getSupabaseAdmin(e) ==
    LET url == e.url
        key == e.key
    IN  IF url = "" \/ key = "" THEN FALSE ELSE TRUE

----------------------------------------------------------------------------
(* parseUserAgent: a user-agent is modelled by the set of the patterns     *)
(* (case-insensitive) that occur in it.                                    *)

UaTokens == {"iphone", "ipad", "android", "mobile", "windows", "macintosh", "linux"}

\* faulty variant: Macintosh is tested before iPad
parseUserAgentMacFirst(ua) ==
    IF "iphone" \in ua THEN [device_type |-> "Mobile", os |-> "iOS"]
    ELSE IF "macintosh" \in ua THEN [device_type |-> "Desktop", os |-> "macOS"]
    ELSE IF "ipad" \in ua THEN [device_type |-> "Tablet", os |-> "iOS"]
    ELSE IF "android" \in ua
         THEN [device_type |-> IF "mobile" \in ua THEN "Mobile" ELSE "Tablet",
               os |-> "Android"]
    ELSE IF "windows" \in ua THEN [device_type |-> "Desktop", os |-> "Windows"]
    ELSE IF "linux" \in ua THEN [device_type |-> "Desktop", os |-> "Linux"]
    ELSE [device_type |-> "Unknown", os |-> "Unknown"]

\* lines 33-58, /X/i.test(ua) read as "X" \in ua
parseUserAgent(ua) ==
    IF "iphone" \in ua THEN [device_type |-> "Mobile", os |-> "iOS"]
    ELSE IF "ipad" \in ua THEN [device_type |-> "Tablet", os |-> "iOS"]
    ELSE IF "android" \in ua
         THEN [device_type |-> IF "mobile" \in ua THEN "Mobile" ELSE "Tablet",
               os |-> "Android"]
    ELSE IF "windows" \in ua THEN [device_type |-> "Desktop", os |-> "Windows"]
    ELSE IF "macintosh" \in ua THEN [device_type |-> "Desktop", os |-> "macOS"]
    ELSE IF "linux" \in ua THEN [device_type |-> "Desktop", os |-> "Linux"]
    ELSE [device_type |-> "Unknown", os |-> "Unknown"]

----------------------------------------------------------------------------
(* hashIp *)

Salt == <<"c","r","e","a","t","o","r","s","h","e","l","f","-","s","a","l","t">>

Letters == <<"a","b","c","d","e","f","g","h","i","j","k","l","m",
             "n","o","p","q","r","s","t","u","v","w","x","y","z">>
Digits == <<"0","1","2","3","4","5","6","7","8","9">>
HexDigits == <<"0","1","2","3","4","5","6","7","8","9","a","b","c","d","e","f">>

IndexOf(seq, c) == CHOOSE i \in 1..Len(seq) : seq[i] = c

\* TextEncoder.encode: the UTF-8 byte of an ASCII character
Encode(c) ==
    IF \E i \in 1..Len(Letters) : Letters[i] = c THEN 96 + IndexOf(Letters, c)
    ELSE IF \E i \in 1..Len(Digits) : Digits[i] = c THEN 47 + IndexOf(Digits, c)
    ELSE IF c = "." THEN 46
    ELSE IF c = "-" THEN 45
    ELSE IF c = "," THEN 44
    ELSE IF c = " " THEN 32
    ELSE 63

RECURSIVE SumBytes(_)
SumBytes(s) == IF s = <<>> THEN 0 ELSE Encode(Head(s)) + SumBytes(Tail(s))

RECURSIVE Mix(_, _)
Mix(s, h) == IF s = <<>> THEN h ELSE Mix(Tail(s), (h * 31 + Encode(Head(s))) % 65521)

\* crypto.subtle.digest("SHA-256", data): a 32-byte digest.  The platform's
\* SHA-256 is replaced by a small deterministic mixing function of the bytes.
Digest(data) ==
    LET m == Mix(data, 7)
        t == SumBytes(data)
    IN  [i \in 1..32 |-> (m * i + t + i * i) % 256]

\* b.toString(16).padStart(2, "0")
HexByte(b) == <<HexDigits[(b \div 16) + 1], HexDigits[(b % 16) + 1]>>

RECURSIVE Join(_)
Join(parts) == IF parts = <<>> THEN <<>> ELSE Head(parts) \o Join(Tail(parts))

Slice(s, n) == SubSeq(s, 1, IF Len(s) < n THEN Len(s) ELSE n)

HashPrefixLen == 16

\* faulty variant: a failed digest gives the empty string
hashIpEmptyOnFailure(ip, digestOk) ==
    IF digestOk
    THEN Slice(Join([i \in 1..32 |-> HexByte(Digest(ip \o Salt)[i])]), HashPrefixLen)
    ELSE <<>>

\* digestOk = FALSE: crypto.subtle.digest (or TextEncoder) throws
hashIp(ip, digestOk) ==
    IF digestOk
    THEN LET data == ip \o Salt
             hashArray == Digest(data)
         IN  Slice(Join([i \in 1..32 |-> HexByte(hashArray[i])]), HashPrefixLen)
    ELSE Unknown

----------------------------------------------------------------------------
(* The client IP of a request *)

RECURSIVE FirstField(_)
\* s.split(",")[0]
FirstField(s) ==
    IF s = <<>> \/ Head(s) = "," THEN <<>> ELSE <<Head(s)>> \o FirstField(Tail(s))

RECURSIVE TrimLeft(_)
TrimLeft(s) == IF s # <<>> /\ Head(s) = " " THEN TrimLeft(Tail(s)) ELSE s

RECURSIVE TrimRight(_)
TrimRight(s) ==
    IF s # <<>> /\ s[Len(s)] = " " THEN TrimRight(SubSeq(s, 1, Len(s) - 1)) ELSE s

Trim(s) == TrimRight(TrimLeft(s))

\* header("x-forwarded-for")?.split(",")[0]?.trim() ?? header("x-real-ip") ?? "unknown"
ClientIp(xff, xreal) ==
    IF xff # AbsentHeader THEN Trim(FirstField(xff))
    ELSE IF xreal # AbsentHeader THEN xreal
    ELSE Unknown

----------------------------------------------------------------------------
(* The link table and the lookup of the handler *)

NoRow == [id |-> 0, user_id |-> Null, short_code |-> <<>>, is_active |-> FALSE,
          expires_at |-> NullTs, destination_url |-> Null,
          deep_link_ios |-> Null, deep_link_android |-> Null]

\* faulty variant: the is_active filter is missing
MatchesIgnoringActive(table, shortCode) ==
    {row \in table : row.short_code = shortCode}

\* .from("spark_codes").select("*").eq("short_code", c).eq("is_active", true)
ActiveMatches(table, shortCode) ==
    {row \in table : row.short_code = shortCode /\ row.is_active}

\* faulty variant: the first of several rows is taken
SingleFirst(rows, storeError) ==
    IF storeError \/ rows = {}
    THEN [data |-> NoRow, error |-> TRUE]
    ELSE [data |-> CHOOSE row \in rows : \A other \in rows : row.id <= other.id,
          error |-> FALSE]

\* .single(): exactly one row, else an error and no data; storeError is a
\* failure of the store itself (unreachable, 5xx)
Single(rows, storeError) ==
    IF storeError \/ Cardinality(rows) # 1
    THEN [data |-> NoRow, error |-> TRUE]
    ELSE [data |-> CHOOSE row \in rows : TRUE, error |-> FALSE]

\* faulty variant: <= for <
IsExpiredInclusive(sparkCode, now) ==
    sparkCode.expires_at # NullTs /\ sparkCode.expires_at <= now

\* sparkCode.expires_at && new Date(sparkCode.expires_at) < new Date()
IsExpired(sparkCode, now) ==
    sparkCode.expires_at # NullTs /\ sparkCode.expires_at < now

\* faulty variant: a configured iOS deep link is used whatever the OS
SelectRedirectUrlAnyOs(sparkCode, os) ==
    IF Truthy(sparkCode.deep_link_ios)
    THEN sparkCode.deep_link_ios
    ELSE IF os = "Android" /\ Truthy(sparkCode.deep_link_android)
         THEN sparkCode.deep_link_android
         ELSE sparkCode.destination_url

\* lines 124-130: the destination for the classified OS
SelectRedirectUrl(sparkCode, os) ==
    LET redirectUrl == sparkCode.destination_url
    IN  IF os = "iOS" /\ Truthy(sparkCode.deep_link_ios)
        THEN sparkCode.deep_link_ios
        ELSE IF os = "Android" /\ Truthy(sparkCode.deep_link_android)
             THEN sparkCode.deep_link_android
             ELSE redirectUrl

\* lines 132-137: c.text(..., 404) or c.redirect(redirectUrl, 302)
DestinationResponse(redirectUrl) ==
    IF ~Truthy(redirectUrl)
    THEN [status |-> 404, location |-> Null]
    ELSE [status |-> 302, location |-> redirectUrl]

\* faulty variant: a failed insert aborts the request
AfterInsertResponseAborted(sparkCode, os, insertError) ==
    IF insertError
    THEN [status |-> 503, location |-> Null]
    ELSE DestinationResponse(SelectRedirectUrl(sparkCode, os))

\* lines 120-137: the response after the insert call has returned; the insert
\* error is logged only
AfterInsertResponse(sparkCode, os, insertError) ==
    DestinationResponse(SelectRedirectUrl(sparkCode, os))

----------------------------------------------------------------------------
(* generateShortCode *)

CHARS == <<"A","B","C","D","E","F","G","H","J","K","L","M","N","P","Q","R",
           "S","T","U","V","W","X","Y","Z",
           "a","b","c","d","e","f","g","h","j","k","m","n","p","q","r","s",
           "t","u","v","w","x","y","z",
           "2","3","4","5","6","7","8","9">>

DefaultLength == 8
FallbackLength == 12

\* faulty variant: the loop runs once too often
generateShortCodeOneMore(length, rnd) ==
    [i \in 1..(length + 1) |-> IF i > length THEN CHARS[1] ELSE CHARS[rnd[i] + 1]]

\* rnd[i] is Math.floor(Math.random() * CHARS.length) of iteration i
generateShortCode(length, rnd) == [i \in 1..length |-> CHARS[rnd[i] + 1]]

\* the random draws the model explores: the same index in every iteration
RandomDraws(length) == {[i \in 1..length |-> k] : k \in 0..(ModelDraws - 1)}

ShortCodes(length) == {generateShortCode(length, rnd) : rnd \in RandomDraws(length)}

----------------------------------------------------------------------------
(* The locals of a handler invocation before the request arrives *)

InitReq ==
    [pc |-> "idle", shortCode |-> <<>>, lookups |-> 0, lookupError |-> FALSE,
     storeError |-> FALSE, sparkCode |-> NoRow,
     ua |-> {}, os |-> Null, device_type |-> Null,
     clientIp |-> <<>>, ipHash |-> <<>>, digestFailed |-> FALSE,
     inserts |-> 0, insertError |-> FALSE,
     responses |-> <<>>, terminal |-> "none"]

----------------------------------------------------------------------------
(* createSparkCode and ensureUniqueShortCode *)

\* the two app instances (devices) that call createSparkCode, each one call
\* at a time
Creators == {"a", "b"}

MaxAttempts == 10

\* getSupabaseClient() / isSupabaseConfigured(): the client, or FALSE for null
getSupabaseClient(e) ==
    IF e.url = "" \/ e.key = "" THEN FALSE ELSE TRUE

\* getCurrentUserId(): useAuthStore.getState().user?.id ?? null
getCurrentUserId(a) == a.user

\* faulty variant: the existence check looks at active links only
ActiveShortCodeMatches(table, candidate) ==
    {row \in table : row.short_code = candidate /\ row.is_active}

\* .from(SPARK_CODES_TABLE).select('id').eq('short_code', candidate)
ShortCodeMatches(table, candidate) ==
    {row \in table : row.short_code = candidate}

\* faulty variant: the first of several rows is the data
MaybeSingleFirst(rows, storeError) ==
    IF storeError
    THEN [data |-> NoRow, error |-> TRUE]
    ELSE IF rows = {}
         THEN [data |-> NoRow, error |-> FALSE]
         ELSE [data |-> CHOOSE row \in rows : \A other \in rows : row.id <= other.id,
               error |-> FALSE]

\* .maybeSingle(): the row, no data for no row, an error and no data for
\* several rows or a failure of the store
MaybeSingle(rows, storeError) ==
    IF storeError \/ Cardinality(rows) > 1
    THEN [data |-> NoRow, error |-> TRUE]
    ELSE IF rows = {}
         THEN [data |-> NoRow, error |-> FALSE]
         ELSE [data |-> CHOOSE row \in rows : TRUE, error |-> FALSE]

\* the inputs of createSparkCode the model explores; "undefined" is a field
\* the caller left out
CreateInputs ==
    {[destination_url |-> "https://a.example", is_active |-> "undefined"],
     [destination_url |-> Null, is_active |-> "false"]}

\* lines 137-150, with the id the table generates
RowOf(input, userId, shortCode, id) ==
    [id |-> id, user_id |-> userId, short_code |-> shortCode,
     is_active |-> IF input.is_active = "undefined" THEN TRUE
                   ELSE input.is_active = "true",
     expires_at |-> NullTs,
     destination_url |-> input.destination_url,
     deep_link_ios |-> Null, deep_link_android |-> Null]

\* .from(SPARK_CODES_TABLE).insert(row): the table after the call; the table
\* declares no uniqueness of short_code
InsertLink(table, row, insertError) ==
    IF insertError THEN table ELSE table \cup {row}

\* path: how ensureUniqueShortCode returned ("none" before it has):
\*   "free"      the lookup of the candidate found no row
\*   "unchecked" the lookup of the candidate failed and `data` was empty
\*   "fallback"  the 12-character code after MaxAttempts candidates
InitCreator ==
    [pc |-> "idle", input |-> [destination_url |-> Null, is_active |-> "undefined"],
     userId |-> Null, attempts |-> 0, candidate |-> <<>>, lookups |-> 0,
     shortCode |-> <<>>, path |-> "none", error |-> "none", calls |-> 0]

\* throw ...: the call fails and its locals go out of scope
Throw(cr, error) ==
    [InitCreator EXCEPT !.pc = "failed", !.error = error, !.calls = cr.calls]

\* the calls made so far
TotalCalls == creator["a"].calls + creator["b"].calls

\* lines 114-120: a candidate is generated and its lookup issued
NextCandidate(cr, rnd) ==
    [cr EXCEPT !.pc = "check",
               !.candidate = generateShortCode(DefaultLength, rnd),
               !.lookups = @ + 1]

\* lines 130-135 and 113-120: the guards, then ensureUniqueShortCode starts
CreateSparkCode(c) ==
    /\ creator[c].pc \in {"idle", "done", "failed"}
    /\ TotalCalls < MaxCreates
    /\ LET supabaseClient == getSupabaseClient(env)
           userId == getCurrentUserId(auth)
           cr == [InitCreator EXCEPT !.calls = creator[c].calls + 1]
       IN  IF supabaseClient = FALSE
           THEN creator' = [creator EXCEPT ![c] =
                    Throw(cr, "SupabaseNotConfiguredError")]
           ELSE IF userId = Null
           THEN creator' = [creator EXCEPT ![c] = Throw(cr, "AuthRequiredError")]
           ELSE \E input \in CreateInputs, rnd \in RandomDraws(DefaultLength) :
                    creator' = [creator EXCEPT ![c] =
                        NextCandidate([cr EXCEPT !.input = input,
                                                 !.userId = userId], rnd)]
    /\ UNCHANGED <<env, clock, spark_codes, scan_events, req, auth, call>>

\* ensureUniqueShortCode returns shortCode and its locals go out of scope;
\* lines 137-156: the row is built and its insert issued
ReturnShortCode(cr, shortCode, path) ==
    [cr EXCEPT !.pc = "insert", !.shortCode = shortCode, !.path = path,
               !.attempts = 0, !.candidate = <<>>, !.lookups = 0]

\* faulty variant: one candidate too many
WithinBudgetInclusive(attempts) == attempts <= MaxAttempts

\* line 114: while (attempts < 10)
WithinBudget(attempts) == attempts < MaxAttempts

\* lines 116-124: the lookup of the candidate returns
CheckReturns(c) ==
    /\ creator[c].pc = "check"
    /\ \E storeError \in BOOLEAN :
         LET cr == creator[c]
             res == MaybeSingle(ShortCodeMatches(spark_codes, cr.candidate),
                                storeError)
             data == res.data
         IN  IF data = NoRow
             THEN creator' = [creator EXCEPT ![c] =
                      ReturnShortCode(cr, cr.candidate,
                                      IF res.error THEN "unchecked" ELSE "free")]
             ELSE IF WithinBudget(cr.attempts + 1)
             THEN \E rnd \in RandomDraws(DefaultLength) :
                      creator' = [creator EXCEPT ![c] =
                          NextCandidate([cr EXCEPT !.attempts = @ + 1], rnd)]
             ELSE \E rnd \in RandomDraws(FallbackLength) :
                      creator' = [creator EXCEPT ![c] =
                          ReturnShortCode([cr EXCEPT !.attempts = @ + 1],
                                          generateShortCode(FallbackLength, rnd),
                                          "fallback")]
    /\ UNCHANGED <<env, clock, spark_codes, scan_events, req, auth, call>>

\* lines 152-158: the insert returns
InsertLinkReturns(c) ==
    /\ creator[c].pc = "insert"
    /\ \E insertError \in BOOLEAN :
         LET cr == creator[c]
             row == RowOf(cr.input, cr.userId, cr.shortCode,
                          Cardinality(spark_codes) + 1)
         IN  /\ spark_codes' = InsertLink(spark_codes, row, insertError)
             /\ creator' = [creator EXCEPT ![c] =
                   IF insertError THEN Throw(cr, "insert error")
                   ELSE [InitCreator EXCEPT !.pc = "done",
                                            !.shortCode = cr.shortCode,
                                            !.path = cr.path,
                                            !.calls = cr.calls]]
    /\ UNCHANGED <<env, clock, scan_events, req, auth, call>>

InitCreate ==
    /\ env \in [url : {"", "https://db.example"}, key : {"", "anon"}]
    /\ auth \in {[user |-> Null, status |-> "signOut"],
                 [user |-> "u1", status |-> "signIn"]}
    /\ clock = 0
    /\ spark_codes = {}
    /\ scan_events = <<>>
    /\ req = [r \in Reqs |-> InitReq]
    /\ creator = [c \in Creators |-> InitCreator]
    /\ call = NoCall

NextCreate ==
    \/ \E c \in Creators : CreateSparkCode(c)
    \/ \E c \in Creators : CheckReturns(c)
    \/ \E c \in Creators : InsertLinkReturns(c)

SpecCreate == InitCreate /\ [][NextCreate]_vars

----------------------------------------------------------------------------
(* The redirect handler, app.get("/r/:shortCode") *)

Users == {"u1", "u2"}

Urls == {Null, "", "https://a.example"}

\* the rows a link can hold after createSparkCode / updateSparkCode
LinkRows(id, shortCode) ==
    [id : {id}, user_id : {"u1"}, short_code : {shortCode},
     is_active : BOOLEAN, expires_at : {NullTs, 1},
     destination_url : Urls,
     deep_link_ios : {Null, "app://x"},
     deep_link_android : {Null, "intent://y"}]

UserAgents == {{"iphone", "mobile", "macintosh"}, {"android", "linux"}, {}}

XffValues == {AbsentHeader, <<" ", "1", ".", "2", ",", "3">>}
XRealValues == {<<"9", ".", "9">>}

\* faulty variant: the response is produced without returning from the handler
RespondWithoutReturn(rq, response, terminal) ==
    [rq EXCEPT !.responses = Append(@, response), !.terminal = terminal]

\* return c.text(...) / c.redirect(...): the handler returns one response and
\* its enrichment locals (ua, device_type, clientIp, ipHash) go out of scope
Respond(rq, response, terminal) ==
    [rq EXCEPT !.pc = "done", !.responses = Append(@, response),
               !.terminal = terminal,
               !.ua = InitReq.ua, !.device_type = InitReq.device_type,
               !.clientIp = InitReq.clientIp, !.ipHash = InitReq.ipHash,
               !.digestFailed = InitReq.digestFailed]

\* lines 73-87: the request arrives; the client is built and the lookup issued.
\* A handler invocation shares nothing with another but the two tables, and a
\* lookup or an insert is one atomic call on them: the requests are taken one
\* after the other.
Receive(r) ==
    /\ req[r].pc = "idle"
    /\ \A q \in 1..(r - 1) : req[q].pc = "done"
    /\ \E shortCode \in ShortCodes(DefaultLength) :
         LET supabase == getSupabaseAdmin(env)
             rq == [req[r] EXCEPT !.shortCode = shortCode]
         IN  IF supabase = FALSE
             THEN req' = [req EXCEPT ![r] =
                      Respond(rq, [status |-> 503, location |-> Null],
                              "service_unavailable")]
             ELSE req' = [req EXCEPT ![r] =
                      [rq EXCEPT !.pc = "lookup", !.lookups = @ + 1]]
    /\ UNCHANGED <<env, clock, spark_codes, scan_events, creator, auth, call>>

\* lines 99-104: the headers are read, the device classified, hashIp called
Enrich(rq, ua, xff, xreal) ==
    LET parsed == parseUserAgent(ua)
    IN  [rq EXCEPT !.pc = "hashing", !.ua = ua, !.os = parsed.os,
                   !.device_type = parsed.device_type,
                   !.clientIp = ClientIp(xff, xreal)]

\* lines 82-104: the lookup returns; found and expiry checks, then enrichment
LookupReturns(r) ==
    /\ req[r].pc = "lookup"
    /\ \E storeError \in BOOLEAN :
         LET res == Single(ActiveMatches(spark_codes, req[r].shortCode), storeError)
             sparkCode == res.data
             rq == [req[r] EXCEPT !.lookupError = res.error,
                                  !.storeError = storeError,
                                  !.sparkCode = sparkCode]
         IN  IF res.error \/ sparkCode = NoRow
             THEN req' = [req EXCEPT ![r] =
                      Respond(rq, [status |-> 404, location |-> Null], "not_found")]
             ELSE IF IsExpired(sparkCode, clock)
             THEN req' = [req EXCEPT ![r] =
                      Respond(rq, [status |-> 410, location |-> Null], "expired")]
             ELSE \E ua \in UserAgents, xff \in XffValues, xreal \in XRealValues :
                      req' = [req EXCEPT ![r] = Enrich(rq, ua, xff, xreal)]
    /\ UNCHANGED <<env, clock, spark_codes, scan_events, creator, auth, call>>

\* lines 104-118: hashIp returns; the scan event is built and the insert issued
HashReturns(r) ==
    /\ req[r].pc = "hashing"
    /\ \E digestOk \in BOOLEAN :
         req' = [req EXCEPT ![r] =
                   [@ EXCEPT !.ipHash = hashIp(req[r].clientIp, digestOk),
                             !.digestFailed = ~digestOk,
                             !.pc = "inserting", !.inserts = @ + 1]]
    /\ UNCHANGED <<env, clock, spark_codes, scan_events, creator, auth, call>>

\* faulty variant: the raw client IP is stored
ScanEventOfRawIp(rq, r, id) ==
    [id |-> id, spark_code_id |-> rq.sparkCode.id,
     device_type |-> rq.device_type, os |-> rq.os, ip_hash |-> rq.clientIp,
     country |-> Null, city |-> Null, by |-> r]

\* lines 106-113: the inserted row, with the id the table generates and `by`,
\* a history field naming the request that wrote the row (scanned_at, which
\* the table defaults to its own now(), is not part of the payload)
ScanEventOf(rq, r, id) ==
    [id |-> id, spark_code_id |-> rq.sparkCode.id,
     device_type |-> rq.device_type, os |-> rq.os, ip_hash |-> rq.ipHash,
     country |-> Null, city |-> Null, by |-> r]

\* faulty variant: the row replaces the rows of the table
InsertScanEventOverwrite(events, scanEvent, insertError) ==
    IF insertError THEN events ELSE <<[scanEvent EXCEPT !.id = 1]>>

\* faulty variant: the row is never written
InsertScanEventDropped(events, scanEvent, insertError) ==
    events

\* .from("scan_events").insert(scanEvent): the table after the call
InsertScanEvent(events, scanEvent, insertError) ==
    IF insertError THEN events ELSE Append(events, scanEvent)

\* faulty variant: a failed insert is attempted once more
InsertReturnsRetry(r) ==
    /\ req[r].pc = "inserting"
    /\ \E insertError \in BOOLEAN :
         LET rq == req[r]
             scanEvent == ScanEventOf(rq, r, Len(scan_events) + 1)
             response == AfterInsertResponse(rq.sparkCode, rq.os, insertError)
         IN  /\ scan_events' = InsertScanEvent(scan_events, scanEvent, insertError)
             /\ req' = [req EXCEPT ![r] =
                   IF insertError /\ rq.inserts < 2
                   THEN [rq EXCEPT !.inserts = @ + 1]
                   ELSE Respond([rq EXCEPT !.insertError = insertError], response,
                                IF response.status = 302 THEN "redirected"
                                ELSE "no_destination")]
    /\ UNCHANGED <<env, clock, spark_codes, creator, auth, call>>

\* lines 116-137: the insert returns; the destination is selected and answered
InsertReturns(r) ==
    /\ req[r].pc = "inserting"
    /\ \E insertError \in BOOLEAN :
         LET rq == req[r]
             scanEvent == ScanEventOf(rq, r, Len(scan_events) + 1)
             response == AfterInsertResponse(rq.sparkCode, rq.os, insertError)
         IN  /\ scan_events' = InsertScanEvent(scan_events, scanEvent, insertError)
             /\ req' = [req EXCEPT ![r] =
                   Respond([rq EXCEPT !.insertError = insertError], response,
                           IF response.status = 302 THEN "redirected"
                           ELSE "no_destination")]
    /\ UNCHANGED <<env, clock, spark_codes, creator, auth, call>>

\* the wall clock advances
Tick ==
    /\ clock < MaxClock
    /\ clock' = clock + 1
    /\ UNCHANGED <<env, spark_codes, scan_events, req, creator, auth, call>>

\* the two links that two racing createSparkCode calls leave behind: active,
\* with one short code
DuplicateLinks ==
    LET input == [destination_url |-> "https://a.example", is_active |-> "undefined"]
        shortCode == generateShortCode(DefaultLength, [i \in 1..DefaultLength |-> 0])
    IN  {RowOf(input, "u1", shortCode, 1), RowOf(input, "u1", shortCode, 2)}

Init ==
    /\ env \in [url : {"", "https://db.example"}, key : {"", "anon"}]
    /\ clock = 0
    /\ \/ \E row \in LinkRows(1, generateShortCode(DefaultLength,
                                      [i \in 1..DefaultLength |-> 0])) :
             spark_codes = {row}
       \/ spark_codes = DuplicateLinks
    /\ scan_events = <<>>
    /\ req = [r \in Reqs |-> InitReq]
    /\ creator = [c \in Creators |-> InitCreator]
    /\ auth = [user |-> Null, status |-> "idle"]
    /\ call = NoCall

Next ==
    \/ \E r \in Reqs : Receive(r)
    \/ \E r \in Reqs : LookupReturns(r)
    \/ \E r \in Reqs : HashReturns(r)
    \/ \E r \in Reqs : InsertReturns(r)
    \/ Tick

Spec == Init /\ [][Next]_vars

----------------------------------------------------------------------------
(* The library functions of the redirect service, called on their own *)

\* the values c.req.header(...) can give for X-Forwarded-For and X-Real-IP:
\* absent, present and empty, blank, one address, a list
HeaderValues ==
    {AbsentHeader, <<>>, <<" ">>, <<"7">>, <<" ", "1", ".", "2", ",", "3">>,
     <<",", "3">>}

\* line 100: parseUserAgent(ua)
ParseUserAgent ==
    /\ \E ua \in SUBSET UaTokens :
         call' = [op |-> "parseUserAgent", arg |-> ua, result |-> parseUserAgent(ua)]
    /\ UNCHANGED <<env, clock, spark_codes, scan_events, req, creator, auth>>

\* lines 101-103: the client IP is read from the headers
ReadClientIp ==
    /\ \E xff \in HeaderValues, xreal \in HeaderValues :
         call' = [op |-> "clientIp", arg |-> <<xff, xreal>>,
                  result |-> ClientIp(xff, xreal)]
    /\ UNCHANGED <<env, clock, spark_codes, scan_events, req, creator, auth>>

\* the lengths generateShortCode is called with
Lengths == {0, 1, 2, DefaultLength, FallbackLength}

\* the random draws of a call: every index of CHARS occurs, in every position
AllDraws(length) ==
    {[i \in 1..length |-> (k + i) % Len(CHARS)] : k \in 0..(Len(CHARS) - 1)}

\* generateShortCode(length) is called
GenerateShortCode ==
    /\ \E length \in Lengths : \E rnd \in AllDraws(length) :
         call' = [op |-> "generateShortCode", arg |-> length,
                  result |-> generateShortCode(length, rnd)]
    /\ UNCHANGED <<env, clock, spark_codes, scan_events, req, creator, auth>>

\* contracts.ts line 115: generateShortCode(), a candidate of createSparkCode
GenerateCandidate ==
    /\ \E rnd \in AllDraws(DefaultLength) :
         call' = [op |-> "candidate", arg |-> <<>>,
                  result |-> generateShortCode(DefaultLength, rnd)]
    /\ UNCHANGED <<env, clock, spark_codes, scan_events, req, creator, auth>>

\* contracts.ts line 124: generateShortCode(12), the fallback of createSparkCode
GenerateFallback ==
    /\ \E rnd \in AllDraws(FallbackLength) :
         call' = [op |-> "fallback", arg |-> <<>>,
                  result |-> generateShortCode(FallbackLength, rnd)]
    /\ UNCHANGED <<env, clock, spark_codes, scan_events, req, creator, auth>>

InitLib ==
    /\ env = [url |-> "https://db.example", key |-> "anon"]
    /\ clock = 0
    /\ spark_codes = {}
    /\ scan_events = <<>>
    /\ req = [r \in Reqs |-> InitReq]
    /\ creator = [c \in Creators |-> InitCreator]
    /\ auth = [user |-> Null, status |-> "idle"]
    /\ call = NoCall

NextLib ==
    \/ ParseUserAgent
    \/ ReadClientIp
    \/ GenerateShortCode
    \/ GenerateCandidate
    \/ GenerateFallback

SpecLib == InitLib /\ [][NextLib]_vars

----------------------------------------------------------------------------
(* getScanEventsForCode and getAnalyticsForCode, the aggregator *)

\* the order of String.prototype.localeCompare on the characters that occur
\* in timestamps and day keys: punctuation, then digits, then letters
Collation ==
    <<"-", ":", "0", "1", "2", "3", "4", "5", "6", "7", "8", "9",
      "a", "b", "c", "d", "e", "f", "g", "h", "i", "j", "k", "l", "m",
      "n", "o", "p", "q", "r", "s", "t", "T", "u", "v", "w", "x", "y", "z">>

CollationRank ==
    [c \in {Collation[i] : i \in 1..Len(Collation)} |-> IndexOf(Collation, c)]

Collate(c) == CollationRank[c]

RECURSIVE localeCompare(_, _)
\* a.localeCompare(b): negative, zero or positive
localeCompare(a, b) ==
    IF a = <<>> /\ b = <<>> THEN 0
    ELSE IF a = <<>> THEN -1
    ELSE IF b = <<>> THEN 1
    ELSE IF Collate(Head(a)) < Collate(Head(b)) THEN -1
    ELSE IF Collate(Head(a)) > Collate(Head(b)) THEN 1
    ELSE localeCompare(Tail(a), Tail(b))

\* Array.prototype.sort with a comparator under which before[i][j] says that
\* s[i] must precede s[j]: a stable sort, elements that neither precedes keep
\* their order
StableSort(s, before) ==
    LET rank == [i \in 1..Len(s) |->
                    1 + Cardinality({j \in 1..Len(s) :
                            \/ before[j][i]
                            \/ (~before[i][j] /\ j < i)})]
    IN  [k \in 1..Len(s) |-> s[CHOOSE i \in 1..Len(s) : rank[i] = k]]

\* a timestamptz as the store returns it, "2024-01-0dTh"
Timestamp(day, hour) ==
    <<"2", "0", "2", "4", "-", "0", "1", "-", "0", day, "T", hour>>

\* scanned_at of a is later than that of b in the store's descending order,
\* in which a NULL comes first
LaterScan(a, b) ==
    IF a.scanned_at = <<>> THEN b.scanned_at # <<>>
    ELSE /\ b.scanned_at # <<>>
         /\ localeCompare(a.scanned_at, b.scanned_at) > 0

\* faulty variant: the events are not filtered by their link
EventsOfAnyCode(events, sparkCodeId) == events

\* .eq('spark_code_id', sparkCodeId), in the order of the table
EventsOfCode(events, sparkCodeId) ==
    LET Test(e) == e.spark_code_id = sparkCodeId
    IN  SelectSeq(events, Test)

\* .order('scanned_at', { ascending: false }); rows of equal scanned_at come
\* in the order of the table
OrderByScannedAtDesc(rows) ==
    StableSort(rows, [i \in 1..Len(rows) |->
                        [j \in 1..Len(rows) |-> LaterScan(rows[i], rows[j])]])

\* faulty variant: no limit
LimitAll(rows, n) == rows

\* .limit(n)
Limit(rows, n) == SubSeq(rows, 1, IF Len(rows) < n THEN Len(rows) ELSE n)

\* faulty variant: the link is not filtered by its owner
LinkByIdOnly(table, sparkCodeId, userId) ==
    {row \in table : row.id = sparkCodeId}

\* .from(SPARK_CODES_TABLE).select('id').eq('id', id).eq('user_id', userId)
OwnedLink(table, sparkCodeId, userId) ==
    {row \in table : row.id = sparkCodeId /\ row.user_id = userId}

\* lines 8-34; linkError and queryError are failures of the two store calls
getScanEventsForCode(e, a, links, events, sparkCodeId, linkError, queryError) ==
    LET supabaseClient == getSupabaseClient(e)
        userId == getCurrentUserId(a)
    IN  IF supabaseClient = FALSE THEN <<>>
        ELSE IF userId = Null THEN <<>>
        ELSE LET code == Single(OwnedLink(links, sparkCodeId, userId), linkError).data
             IN  IF code = NoRow THEN <<>>
                 ELSE IF queryError THEN <<>>
                 ELSE Limit(OrderByScannedAtDesc(EventsOfCode(events, sparkCodeId)),
                            ScanLimit)

\* faulty variant: a map that outlives the call
ReusedMap(previous) == previous

\* lines 41-44: const dayMap = {}: a new, empty map in every call; a map is
\* the sequence of its [key, count] entries in insertion order
EmptyMap(previous) == <<>>

\* faulty variant: a key that is present is not counted again
IncrementOnce(map, key) ==
    IF \E i \in 1..Len(map) : map[i].key = key
    THEN map
    ELSE Append(map, [key |-> key, count |-> 1])

\* map[key] = (map[key] ?? 0) + 1
Increment(map, key) ==
    IF \E i \in 1..Len(map) : map[i].key = key
    THEN [i \in 1..Len(map) |->
             IF map[i].key = key THEN [map[i] EXCEPT !.count = @ + 1] ELSE map[i]]
    ELSE Append(map, [key |-> key, count |-> 1])

RECURSIVE Tally(_, _)
\* lines 46-58 for one of the four maps: the keys of the events in turn
Tally(keys, map) ==
    IF keys = <<>> THEN map ELSE Tally(Tail(keys), Increment(map, Head(keys)))

\* line 47: ev.scanned_at ? ev.scanned_at.slice(0, 10) : 'unknown'
DayOf(ev) == IF ev.scanned_at # <<>> THEN Slice(ev.scanned_at, 10) ELSE Unknown

\* faulty variant: a null field keeps a key of its own
KeepNull(v) == v

\* lines 50, 53, 56: ev.field ?? 'Unknown'
OrUnknown(v) == IF v = Null THEN "Unknown" ELSE v

\* faulty variant: the day entries are left in insertion order
ByInsertion(a, b) == FALSE

\* line 62: (a, b) => a.date.localeCompare(b.date)
ByDate(a, b) == localeCompare(a.key, b.key) < 0

\* lines 66, 70, 74: (a, b) => b.count - a.count
ByCountDesc(a, b) == b.count - a.count < 0

\* the day entries of the previous result as a map
DayMapOf(c) ==
    IF c.op = "getAnalyticsForCode"
    THEN [i \in 1..Len(c.result.scans_by_day) |->
             [key |-> c.result.scans_by_day[i].date,
              count |-> c.result.scans_by_day[i].count]]
    ELSE <<>>

\* lines 39-76
ScanAnalyticsOf(events, previous) ==
    LET dayMap == Tally([i \in 1..Len(events) |-> DayOf(events[i])],
                        EmptyMap(previous))
        deviceMap == Tally([i \in 1..Len(events) |-> OrUnknown(events[i].device_type)],
                           <<>>)
        osMap == Tally([i \in 1..Len(events) |-> OrUnknown(events[i].os)], <<>>)
        countryMap == Tally([i \in 1..Len(events) |-> OrUnknown(events[i].country)],
                            <<>>)
        byDay == StableSort(dayMap, [i \in 1..Len(dayMap) |->
                    [j \in 1..Len(dayMap) |-> ByDate(dayMap[i], dayMap[j])]])
        byDevice == StableSort(deviceMap, [i \in 1..Len(deviceMap) |->
                    [j \in 1..Len(deviceMap) |-> ByCountDesc(deviceMap[i], deviceMap[j])]])
        byOs == StableSort(osMap, [i \in 1..Len(osMap) |->
                    [j \in 1..Len(osMap) |-> ByCountDesc(osMap[i], osMap[j])]])
        byCountry == StableSort(countryMap, [i \in 1..Len(countryMap) |->
                    [j \in 1..Len(countryMap) |->
                        ByCountDesc(countryMap[i], countryMap[j])]])
    IN  [total_scans |-> Len(events),
         scans_by_day |-> [i \in 1..Len(byDay) |->
             [date |-> byDay[i].key, count |-> byDay[i].count]],
         scans_by_device |-> [i \in 1..Len(byDevice) |->
             [device_type |-> byDevice[i].key, count |-> byDevice[i].count]],
         scans_by_os |-> [i \in 1..Len(byOs) |->
             [os |-> byOs[i].key, count |-> byOs[i].count]],
         scans_by_country |-> [i \in 1..Len(byCountry) |->
             [country |-> byCountry[i].key, count |-> byCountry[i].count]]]

\* the links of the two users
AnalyticsLinks ==
    {RowOf([destination_url |-> "https://a.example", is_active |-> "true"],
           "u1", generateShortCode(DefaultLength, [i \in 1..DefaultLength |-> 0]), 1),
     RowOf([destination_url |-> "https://a.example", is_active |-> "true"],
           "u2", generateShortCode(DefaultLength, [i \in 1..DefaultLength |-> 1]), 2)}

\* the rows the scan_events table can hold: those the redirect service
\* writes (device_type and os of parseUserAgent, country null) and those the
\* ScanEvent type admits besides (a null device_type or os, a country, a
\* missing scanned_at)
ScanRows ==
    {[spark_code_id |-> 1, scanned_at |-> Timestamp("1", "1"),
      device_type |-> "Mobile", os |-> "iOS", country |-> Null],
     [spark_code_id |-> 1, scanned_at |-> Timestamp("2", "1"),
      device_type |-> "Unknown", os |-> "Android", country |-> Null],
     [spark_code_id |-> 1, scanned_at |-> Timestamp("1", "2"),
      device_type |-> Null, os |-> Null, country |-> "US"],
     [spark_code_id |-> 1, scanned_at |-> <<>>,
      device_type |-> "Mobile", os |-> "Android", country |-> "US"],
     [spark_code_id |-> 2, scanned_at |-> Timestamp("2", "2"),
      device_type |-> "Mobile", os |-> "iOS", country |-> Null]}

\* a scan event is written to the table; the results of earlier calls are
\* results for another table content and are dropped from the history
RecordScan ==
    /\ Len(scan_events) < MaxEvents
    /\ \E row \in ScanRows :
         scan_events' = Append(scan_events,
             [id |-> Len(scan_events) + 1, spark_code_id |-> row.spark_code_id,
              scanned_at |-> row.scanned_at, device_type |-> row.device_type,
              os |-> row.os, ip_hash |-> Unknown, country |-> row.country,
              city |-> Null])
    /\ call' = NoCall
    /\ UNCHANGED <<env, clock, spark_codes, req, creator, auth>>

\* the outcomes of the two store calls: the scan-event query is issued, and
\* can fail, only when the link lookup has not
StoreOutcomes ==
    {[linkError |-> FALSE, queryError |-> FALSE],
     [linkError |-> FALSE, queryError |-> TRUE],
     [linkError |-> TRUE, queryError |-> FALSE]}

\* lines 36-77: getAnalyticsForCode(sparkCodeId) is called and returns;
\* events and the outcome of the store calls are kept with the result, and
\* again says that the call follows another on the same table content
GetAnalyticsForCode(sparkCodeId) ==
    /\ \E outcome \in StoreOutcomes :
         LET events == getScanEventsForCode(env, auth, spark_codes, scan_events,
                           sparkCodeId, outcome.linkError, outcome.queryError)
         IN  call' = [op |-> "getAnalyticsForCode", arg |-> sparkCodeId,
                      result |-> ScanAnalyticsOf(events, DayMapOf(call)),
                      events |-> events, linkError |-> outcome.linkError,
                      queryError |-> outcome.queryError,
                      again |-> call.op = "getAnalyticsForCode"]
    /\ UNCHANGED <<env, clock, spark_codes, scan_events, req, creator, auth>>

InitAnalytics ==
    /\ \/ /\ env = [url |-> "https://db.example", key |-> "anon"]
          /\ auth \in {[user |-> Null, status |-> "signOut"],
                       [user |-> "u1", status |-> "signIn"]}
       \/ /\ env = [url |-> "https://db.example", key |-> ""]
          /\ auth = [user |-> "u1", status |-> "signIn"]
    /\ clock = 0
    /\ spark_codes = AnalyticsLinks
    /\ scan_events = <<>>
    /\ req = [r \in Reqs |-> InitReq]
    /\ creator = [c \in Creators |-> InitCreator]
    /\ call = NoCall

NextAnalytics ==
    \/ RecordScan
    \/ \E sparkCodeId \in {1, 2} : GetAnalyticsForCode(sparkCodeId)

SpecAnalytics == InitAnalytics /\ [][NextAnalytics]_vars

----------------------------------------------------------------------------
(* updateSparkCode *)

\* the links of the two users as the table stores them: created_at is the
\* column default, the time of the insert
StoredLinks ==
    {row @@ [created_at |-> row.id] : row \in AnalyticsLinks}

\* the `updates` argument: Partial<Omit<SparkCode, 'id' | 'user_id' |
\* 'created_at' | 'short_code'>>, any subset of the other columns
UpdateInputs ==
    [note : {Null}]
      \cup [destination_url : Urls]
      \cup [is_active : BOOLEAN]
      \cup [is_active : BOOLEAN, expires_at : {NullTs, 1}]
      \cup [deep_link_ios : {Null, "app://x"}, deep_link_android : {"intent://y"}]

\* the ids updateSparkCode is called with: the two links and no link
UpdateIds == {1, 2, 3}

\* faulty variant: the row is selected by its id alone
UpdateTargetsByIdOnly(table, id, userId) ==
    {row \in table : row.id = id}

\* .eq('id', id).eq('user_id', userId)
UpdateTargets(table, id, userId) ==
    {row \in table : row.id = id /\ row.user_id = userId}

\* .update(updates) on one row: the columns named in updates are assigned
\* (note is a column the model does not keep)
ApplyUpdates(row, updates) ==
    [f \in DOMAIN row |-> IF f \in DOMAIN updates THEN updates[f] ELSE row[f]]

\* the table after .update(updates).eq(...).eq(...)
UpdateLinks(table, id, userId, updates) ==
    LET targets == UpdateTargets(table, id, userId)
    IN  (table \ targets) \cup {ApplyUpdates(row, updates) : row \in targets}

\* lines 161-178: updateSparkCode(id, updates) is called and returns or
\* throws; a failure of the store leaves the table as it was
UpdateSparkCode ==
    \E id \in UpdateIds : \E updates \in UpdateInputs : \E storeError \in BOOLEAN :
        LET userId == getCurrentUserId(auth)
            targets == UpdateTargets(spark_codes, id, userId)
            after == {ApplyUpdates(row, updates) : row \in targets}
            outcome == Single(after, storeError)
        IN  /\ IF ~getSupabaseClient(env)
               THEN /\ call' = [op |-> "updateSparkCode", arg |-> id,
                                updates |-> updates, result |-> NoRow,
                                error |-> "SupabaseNotConfiguredError"]
                    /\ UNCHANGED spark_codes
               ELSE IF userId = Null
               THEN /\ call' = [op |-> "updateSparkCode", arg |-> id,
                                updates |-> updates, result |-> NoRow,
                                error |-> "AuthRequiredError"]
                    /\ UNCHANGED spark_codes
               ELSE /\ spark_codes' = IF storeError THEN spark_codes
                                      ELSE UpdateLinks(spark_codes, id, userId, updates)
                    /\ call' = [op |-> "updateSparkCode", arg |-> id,
                                updates |-> updates, result |-> outcome.data,
                                error |-> IF outcome.error THEN "store error"
                                          ELSE "none"]
            /\ UNCHANGED <<env, clock, scan_events, req, creator, auth>>

InitLinks ==
    /\ env \in {[url |-> "https://db.example", key |-> "anon"],
                [url |-> "", key |-> "anon"]}
    /\ auth \in {[user |-> Null, status |-> "signOut"],
                 [user |-> "u1", status |-> "signIn"],
                 [user |-> "u2", status |-> "signIn"]}
    /\ clock = 0
    /\ spark_codes = StoredLinks
    /\ scan_events = <<>>
    /\ req = [r \in Reqs |-> InitReq]
    /\ creator = [c \in Creators |-> InitCreator]
    /\ call = NoCall

NextLinks == UpdateSparkCode

SpecLinks == InitLinks /\ [][NextLinks]_vars

----------------------------------------------------------------------------
(* useAuthStore: signIn, signOut and hydrate.  auth is the state of the    *)
(* store; call holds the Supabase session and the asynchronous calls in    *)
(* flight: the sign-in of the sign-in screen, the signOutUser() of signOut *)
(* and the getCurrentUser() of each hydrate.                               *)

\* the hydrate calls that can be in flight together
Hydrates == 1..MaxHydrates

\* stale: signOut has been called since the hydrate was started
NoHydrate == [pc |-> "idle", user |-> Null, stale |-> FALSE]

\* set(partial): zustand merges the partial state into the state
Set(state, partial) ==
    [f \in DOMAIN state |-> IF f \in DOMAIN partial THEN partial[f] ELSE state[f]]

\* sign-in.tsx line 76: signInWithEmail resolves, the session is that of user
SignInWithEmail(user) ==
    /\ getSupabaseClient(env)
    /\ call.signingIn = Null
    /\ call' = [call EXCEPT !.session = user, !.signingIn = user]
    /\ UNCHANGED <<env, clock, spark_codes, scan_events, req, creator, auth>>

\* lines 18-21: signIn(user), called with the user signInWithEmail gave
SignIn ==
    /\ call.signingIn # Null
    /\ auth' = Set(auth, [user |-> call.signingIn, status |-> "signIn"])
    /\ call' = [call EXCEPT !.signingIn = Null, !.signedOut = FALSE]
    /\ UNCHANGED <<env, clock, spark_codes, scan_events, req, creator>>

\* lines 22-24: signOut() is called and awaits signOutUser(), which awaits
\* auth.signOut() of a configured client and nothing otherwise
SignOut ==
    /\ call.signOut = "idle"
    /\ call' = [call EXCEPT !.signOut =
                   IF getSupabaseClient(env) THEN "signOutUser" ELSE "resolved",
                            !.hydrate = [h \in Hydrates |->
                                IF @[h].pc \in {"getUser", "resolved", "rejected"}
                                THEN [@[h] EXCEPT !.stale = TRUE]
                                ELSE @[h]]]
    /\ UNCHANGED <<env, clock, spark_codes, scan_events, req, creator, auth>>

\* auth.signOut() ends the session, or fails and leaves it
SignOutUserReturns ==
    /\ call.signOut = "signOutUser"
    /\ \E failed \in BOOLEAN :
         call' = [call EXCEPT !.signOut = "resolved",
                              !.session = IF failed THEN @ ELSE Null]
    /\ UNCHANGED <<env, clock, spark_codes, scan_events, req, creator, auth>>

\* line 25: the continuation of signOut after the await
SignOutCompletes ==
    /\ call.signOut = "resolved"
    /\ auth' = Set(auth, [user |-> Null, status |-> "signOut"])
    /\ call' = [call EXCEPT !.signOut = "idle", !.signedOut = TRUE]
    /\ UNCHANGED <<env, clock, spark_codes, scan_events, req, creator>>

\* lines 27-30: hydrate() sets the status and calls getCurrentUser(), which
\* resolves to null without a configured client and awaits auth.getUser()
\* otherwise
Hydrate(h) ==
    /\ call.hydrate[h].pc = "idle"
    /\ auth' = Set(auth, [status |-> "loading"])
    /\ call' = [call EXCEPT !.hydrate[h] =
                   [pc |-> IF getSupabaseClient(env) THEN "getUser" ELSE "resolved",
                    user |-> Null, stale |-> FALSE]]
    /\ UNCHANGED <<env, clock, spark_codes, scan_events, req, creator>>

\* part_007 lines 70-74: auth.getUser() answers with the user of the session,
\* with an error (getCurrentUser gives null) or by throwing
GetUserReturns(h) ==
    /\ call.hydrate[h].pc = "getUser"
    /\ \E outcome \in {"user", "error", "throws"} :
         call' = [call EXCEPT !.hydrate[h] =
                     [@ EXCEPT !.pc = IF outcome = "throws" THEN "rejected"
                                      ELSE "resolved",
                               !.user = IF outcome = "user" THEN call.session
                                        ELSE Null]]
    /\ UNCHANGED <<env, clock, spark_codes, scan_events, req, creator, auth>>

\* lines 31-38: the .then or the .catch callback of hydrate runs; a hydrate
\* started after the call of signOut ends the signed-out period
HydrateCompletes(h) ==
    /\ call.hydrate[h].pc \in {"resolved", "rejected"}
    /\ LET user == call.hydrate[h].user
       IN  auth' = IF call.hydrate[h].pc = "resolved"
                   THEN Set(auth, [user |-> user,
                                   status |-> IF user # Null THEN "signIn"
                                              ELSE "signOut"])
                   ELSE Set(auth, [user |-> Null, status |-> "signOut"])
    /\ call' = [call EXCEPT !.hydrate[h] = NoHydrate,
                            !.signedOut = IF call.hydrate[h].stale THEN @
                                          ELSE FALSE]
    /\ UNCHANGED <<env, clock, spark_codes, scan_events, req, creator>>

InitAuth ==
    /\ env \in {[url |-> "https://db.example", key |-> "anon"],
                [url |-> "", key |-> "anon"]}
    /\ auth = [user |-> Null, status |-> "idle"]
    /\ \E session \in {Null, "u1"} :
         call = [op |-> "authStore", session |-> session, signingIn |-> Null,
                 signOut |-> "idle", signedOut |-> FALSE,
                 hydrate |-> [h \in Hydrates |-> NoHydrate]]
    /\ clock = 0
    /\ spark_codes = {}
    /\ scan_events = <<>>
    /\ req = [r \in Reqs |-> InitReq]
    /\ creator = [c \in Creators |-> InitCreator]

NextAuth ==
    \/ \E user \in Users : SignInWithEmail(user)
    \/ SignIn
    \/ SignOut
    \/ SignOutUserReturns
    \/ SignOutCompletes
    \/ \E h \in Hydrates : Hydrate(h)
    \/ \E h \in Hydrates : GetUserReturns(h)
    \/ \E h \in Hydrates : HydrateCompletes(h)

SpecAuth == InitAuth /\ [][NextAuth]_vars

----------------------------------------------------------------------------
(* Properties of the redirect handler (checked under Spec) *)

Done(r) == req[r].pc = "done" /\ Len(req[r].responses) = 1
Status(r) == req[r].responses[1].status
Location(r) == req[r].responses[1].location

NonEmpty(s) == s \notin {Null, ""}

\* the request got a row from its lookup and the row was not expired
Resolved(r) ==
    /\ Done(r)
    /\ req[r].lookups = 1
    /\ ~req[r].lookupError
    /\ req[r].terminal # "expired"

\* the destination rule of the specification
RuleUrl(link, os) ==
    IF os = "iOS" /\ NonEmpty(link.deep_link_ios) THEN link.deep_link_ios
    ELSE IF os = "Android" /\ NonEmpty(link.deep_link_android)
         THEN link.deep_link_android
    ELSE link.destination_url

\* C1: a request that resolves to an active, unexpired link is answered by
\* the precedence rule: the iOS deep link for iOS, else the Android deep link
\* for Android, else destination_url; 302 with that Location when it is
\* non-empty and 404 otherwise.
C1_DestinationRule ==
    \A r \in Reqs :
        Resolved(r) =>
            LET url == RuleUrl(req[r].sparkCode, req[r].os)
            IN  /\ req[r].sparkCode \in spark_codes
                /\ req[r].sparkCode.is_active
                /\ IF NonEmpty(url)
                   THEN Status(r) = 302 /\ Location(r) = url
                   ELSE Status(r) = 404 /\ Location(r) = Null

\* an iOS request to a link with no destination_url and no iOS deep link is
\* answered 404 although an Android deep link is configured
C1_Witness ==
    \E r \in Reqs :
        /\ Resolved(r)
        /\ req[r].os = "iOS"
        /\ req[r].sparkCode.destination_url = Null
        /\ req[r].sparkCode.deep_link_ios = Null
        /\ NonEmpty(req[r].sparkCode.deep_link_android)
        /\ Status(r) = 404

\* C2: a request whose short code matches no link, or only an inactive link,
\* is answered 404, also when the inactive link's expiry is in the past.
C2_NotFound ==
    \A r \in Reqs :
        (/\ Done(r)
         /\ req[r].lookups = 1
         /\ ~\E row \in spark_codes :
               row.short_code = req[r].shortCode /\ row.is_active)
        => Status(r) = 404 /\ req[r].terminal = "not_found"

\* an inactive link whose expiry has passed is answered 404 by a lookup that
\* did not fail
C2_Witness ==
    \E r \in Reqs : \E row \in spark_codes :
        /\ Done(r)
        /\ req[r].lookups = 1
        /\ ~req[r].storeError
        /\ row.short_code = req[r].shortCode
        /\ ~row.is_active
        /\ row.expires_at # NullTs
        /\ row.expires_at < clock
        /\ Status(r) = 404

\* the step in which the lookup of request r returns a row
LookupStepWithRow(r) ==
    /\ req[r].pc = "lookup"
    /\ req'[r].pc # "lookup"
    /\ ~req'[r].lookupError

PastExpiry(link, now) == link.expires_at # NullTs /\ link.expires_at < now

\* C3: a request that resolves to an active link is answered 410 exactly when
\* expires_at is non-null and strictly earlier than the clock at the check;
\* no other step of the handler answers 410.
C3_ExpiredIff ==
    [][\A r \in Reqs :
          /\ LookupStepWithRow(r) =>
                (PastExpiry(req'[r].sparkCode, clock)
                    <=> (Done(r)' /\ Status(r)' = 410))
          /\ (Len(req'[r].responses) > Len(req[r].responses) /\ Status(r)' = 410)
                => LookupStepWithRow(r)]_vars

\* a link answered 302 before its expiry and 410 after it
C3_Witness ==
    \E r1, r2 \in Reqs :
        /\ Done(r1) /\ Status(r1) = 302
        /\ Done(r2) /\ Status(r2) = 410
        /\ req[r2].sparkCode.expires_at < clock
        /\ req[r1].sparkCode = req[r2].sparkCode

Unconfigured == env.url = "" \/ env.key = ""

\* C4: with the store unconfigured (URL or key missing) every request is
\* answered 503 and performs neither a lookup nor a scan-event insert.
C4_Unconfigured ==
    Unconfigured =>
        /\ scan_events = <<>>
        /\ \A r \in Reqs :
              /\ req[r].lookups = 0
              /\ req[r].inserts = 0
              /\ req[r].pc \in {"idle", "done"}
              /\ Done(r) => Status(r) = 503

\* the URL is set and only the key is missing
C4_Witness ==
    /\ env.url # ""
    /\ env.key = ""
    /\ \E r \in Reqs : Done(r) /\ Status(r) = 503 /\ req[r].lookups = 0

\* C5: a lookup that fails because the store is unreachable or returns an
\* error ends the request in service_unavailable (503), without a retry.
C5_LookupFailure503 ==
    \A r \in Reqs :
        (Done(r) /\ req[r].storeError) =>
            /\ Status(r) = 503
            /\ req[r].terminal = "service_unavailable"
            /\ req[r].lookups = 1

Rank(pc) ==
    CASE pc = "idle" -> 0
      [] pc = "lookup" -> 1
      [] pc = "hashing" -> 2
      [] pc = "inserting" -> 3
      [] pc = "done" -> 4

\* the next step of the handler of request r
HandlerStep(r) == LookupReturns(r) \/ HashReturns(r) \/ InsertReturns(r)

\* C6: every request terminates with exactly one response, of status 302,
\* 404, 410 or 503: a received request can always take its next step, every
\* step moves it strictly forward through the handler's four positions, it
\* never holds more than one response, and it holds exactly one, with one of
\* the four statuses, when it is done.
C6_OneResponse ==
    /\ [](\A r \in Reqs :
            /\ Len(req[r].responses) <= 1
            /\ (req[r].pc = "done") <=> (Len(req[r].responses) = 1)
            /\ Done(r) => Status(r) \in {302, 404, 410, 503}
            /\ req[r].pc \in {"lookup", "hashing", "inserting"}
                  => ENABLED HandlerStep(r))
    /\ [][\A r \in Reqs :
            req'[r] # req[r] => Rank(req'[r].pc) > Rank(req[r].pc)]_vars

\* the four statuses are answered: 302 and then 410 by one link, 404 for an
\* unknown code (503 is C4_Witness)
C6_Witness ==
    \E r1, r2 \in Reqs :
        /\ Done(r1) /\ Done(r2)
        /\ Status(r1) \in {302, 404}
        /\ req[r1].insertError
        /\ Status(r2) = 410

\* C7: the status and the Location of the response do not depend on the
\* outcome of the scan-event insert: two requests that resolved to the same
\* link with the same classified OS get the same response, whether their
\* inserts succeeded or failed.
C7_InsertOutcomeIrrelevant ==
    \A r1, r2 \in Reqs :
        (/\ Done(r1) /\ Done(r2)
         /\ req[r1].inserts = 1 /\ req[r2].inserts = 1
         /\ req[r1].sparkCode = req[r2].sparkCode
         /\ req[r1].os = req[r2].os)
        => req[r1].responses = req[r2].responses

\* the same link and OS, one insert failed and one succeeded, both redirected
C7_Witness ==
    \E r1, r2 \in Reqs :
        /\ Done(r1) /\ Done(r2)
        /\ req[r1].inserts = 1 /\ req[r2].inserts = 1
        /\ req[r1].sparkCode = req[r2].sparkCode
        /\ req[r1].os = req[r2].os
        /\ req[r1].insertError /\ ~req[r2].insertError
        /\ Status(r1) = 302 /\ Status(r2) = 302

EventsBy(r) == {i \in 1..Len(scan_events) : scan_events[i].by = r}
EventsOf(linkId) ==
    {i \in 1..Len(scan_events) : scan_events[i].spark_code_id = linkId}

Quiescent == \A r \in Reqs : req[r].pc \in {"idle", "done"}
EveryInsertSucceeded == \A r \in Reqs : ~req[r].insertError

\* C8 as claimed: with every insert succeeding, the scan events of a link
\* are as many as the requests for it answered 302, and no request answered
\* 404, 410 or 503 has a scan event.
C8_OnePer302 ==
    (Quiescent /\ EveryInsertSucceeded) =>
        /\ \A link \in spark_codes :
              Cardinality(EventsOf(link.id)) =
                  Cardinality({r \in Reqs : /\ Done(r)
                                            /\ Status(r) = 302
                                            /\ req[r].sparkCode = link})
        /\ \A r \in Reqs :
              (Done(r) /\ Status(r) \in {404, 410, 503}) => EventsBy(r) = {}

\* the requests that reached the insert: resolved to an active, unexpired link
Recorded(r) == Done(r) /\ req[r].terminal \in {"redirected", "no_destination"}

\* C8 as amended: with every insert succeeding, the scan events of a link
\* are as many as the requests that resolved to it (answered 302, or 404 for
\* want of a destination), each such request has exactly one event, and a
\* request answered 410, 503 or 404 link-not-found has none.
C8_OnePerResolved ==
    (Quiescent /\ EveryInsertSucceeded) =>
        /\ \A link \in spark_codes :
              Cardinality(EventsOf(link.id)) =
                  Cardinality({r \in Reqs : Recorded(r) /\ req[r].sparkCode = link})
        /\ \A r \in Reqs :
              /\ Recorded(r) => Cardinality(EventsBy(r)) = 1
              /\ (Done(r) /\ ~Recorded(r)) => EventsBy(r) = {}
              /\ Recorded(r) <=> (Done(r) /\ Resolved(r))

\* a request answered 404 for want of a destination, with its scan event
C8_Witness ==
    /\ Quiescent /\ EveryInsertSucceeded
    /\ \E r \in Reqs :
          /\ Done(r) /\ Status(r) = 404
          /\ req[r].terminal = "no_destination"
          /\ Cardinality(EventsBy(r)) = 1
    /\ \E r \in Reqs : Done(r) /\ Status(r) = 302

\* C14: hashIp never raises: a pending hashIp call can always return and the
\* handler goes on to the insert; when the digest failed the hash is the
\* sentinel "unknown", the scan event is still inserted, with ip_hash =
\* "unknown", and the response is the one the destination rule gives, as it
\* is when hashing succeeds.
C14_HashFailureHarmless ==
    /\ [](\A r \in Reqs :
            /\ req[r].pc = "hashing" => ENABLED HashReturns(r)
            /\ (req[r].pc = "inserting" /\ req[r].digestFailed)
                  => req[r].ipHash = Unknown)
    /\ [][\A r \in Reqs :
            /\ (req[r].pc = "hashing" /\ req'[r] # req[r])
                  => req'[r].pc = "inserting" /\ req'[r].inserts = 1
            /\ (req[r].pc = "inserting" /\ req'[r].pc = "done"
                                        /\ req[r].digestFailed)
                  => /\ req'[r].responses =
                          <<DestinationResponse(RuleUrl(req[r].sparkCode, req[r].os))>>
                     /\ ~req'[r].insertError
                          => /\ Len(scan_events') = Len(scan_events) + 1
                             /\ scan_events'[Len(scan_events')].ip_hash = Unknown
                             /\ scan_events'[Len(scan_events')].by = r]_vars

\* one link and OS, redirected twice: once recorded with a digest and once,
\* the digest having failed, with ip_hash = "unknown"
C14_Witness ==
    \E r1, r2 \in Reqs : \E i, j \in 1..Len(scan_events) :
        /\ Done(r1) /\ Done(r2)
        /\ Status(r1) = 302 /\ req[r1].responses = req[r2].responses
        /\ req[r1].sparkCode = req[r2].sparkCode
        /\ scan_events[i].by = r1 /\ scan_events[i].ip_hash = Unknown
        /\ scan_events[j].by = r2 /\ Len(scan_events[j].ip_hash) = 16

\* C21: the scan-event log is append-only: a step of the system leaves every
\* persisted scan event in place with its field values, and the table only
\* grows.
C21_AppendOnly ==
    [][/\ Len(scan_events') >= Len(scan_events)
       /\ \A i \in 1..Len(scan_events) : scan_events'[i] = scan_events[i]]_vars

\* a second event was appended after the first
C21_Witness ==
    /\ Len(scan_events) = 2
    /\ scan_events[1].by = 1
    /\ scan_events[2].by = 2

\* the step in which the insert of request r returns
ScanInsertStep(r) == req[r].pc = "inserting" /\ req'[r] # req[r]

\* C25: within a request the steps come in the order lookup, expiry
\* validation, enrichment, insert, destination selection, response: the
\* insert is issued once at most, after the lookup gave an active link that
\* had not expired and the request was enriched, it is not issued again when
\* it fails, and a request that issued it responds on the step in which the
\* insert call returns, not before.
C25_StepOrder ==
    /\ [](\A r \in Reqs :
            /\ req[r].inserts <= 1
            /\ req[r].lookups <= 1
            /\ req[r].inserts = 1
                  => /\ req[r].lookups = 1 /\ ~req[r].lookupError
                     /\ req[r].sparkCode \in spark_codes
                     /\ req[r].sparkCode.is_active
                     /\ req[r].os # Null
                     /\ req[r].pc \in {"inserting", "done"})
    /\ [][\A r \in Reqs :
            /\ req'[r].pc = "hashing" /\ req[r].pc # "hashing"
                  => /\ req[r].pc = "lookup"
                     /\ ~PastExpiry(req'[r].sparkCode, clock)
            /\ req'[r].inserts > req[r].inserts
                  => req[r].pc = "hashing" /\ req'[r].pc = "inserting"
            /\ ScanInsertStep(r)
                  => /\ req'[r].pc = "done"
                     /\ req'[r].inserts = req[r].inserts
                     /\ Len(req'[r].responses) = Len(req[r].responses) + 1
            /\ (Len(req'[r].responses) > Len(req[r].responses) /\ ~ScanInsertStep(r))
                  => /\ req[r].inserts = 0
                     /\ req'[r].terminal \in
                          {"service_unavailable", "not_found", "expired"}]_vars

\* both requests issued one insert; the first failed and was not retried
C25_Witness ==
    /\ Done(1) /\ Done(2)
    /\ req[1].inserts = 1 /\ req[1].insertError /\ Status(1) = 302
    /\ req[2].inserts = 1 /\ ~req[2].insertError
    /\ Len(scan_events) = 1

\* C26: when two or more active links share a short code, every request for
\* that code is answered 404 and records no scan event; no insert is issued.
C26_DuplicatesNotFound ==
    \A r \in Reqs :
        (/\ Done(r)
         /\ req[r].lookups = 1
         /\ Cardinality({row \in spark_codes :
                row.short_code = req[r].shortCode /\ row.is_active}) >= 2)
        => /\ Status(r) = 404
           /\ Location(r) = Null
           /\ req[r].inserts = 0
           /\ EventsBy(r) = {}

\* a request for the code of two active links, the store answering, is 404
C26_Witness ==
    \E r \in Reqs :
        /\ Done(r)
        /\ req[r].lookups = 1
        /\ ~req[r].storeError
        /\ spark_codes = DuplicateLinks
        /\ \A row \in spark_codes : row.short_code = req[r].shortCode
        /\ Status(r) = 404

----------------------------------------------------------------------------
(* Properties of the aggregator (checked under SpecAnalytics) *)

Returned == call.op = "getAnalyticsForCode"

\* the rows of the table that belong to a link
EventsIn(sparkCodeId) ==
    {i \in 1..Len(scan_events) : scan_events[i].spark_code_id = sparkCodeId}

OwnedByCurrentUser(sparkCodeId) ==
    /\ auth.user # Null
    /\ \E link \in spark_codes : link.id = sparkCodeId /\ link.user_id = auth.user

\* the store is configured and neither store call of the last call failed
FetchSucceeded ==
    /\ env.url # "" /\ env.key # ""
    /\ ~call.linkError /\ ~call.queryError

Fetched == {call.events[k].id : k \in 1..Len(call.events)}

\* C16: for a link owned by the current user with N persisted scan events,
\* total_scans = min(N, limit), counted over N (or limit) events none of which
\* is older than an event left out; total_scans never exceeds the limit.
C16_TotalScans ==
    Returned =>
        /\ call.result.total_scans <= ScanLimit
        /\ (OwnedByCurrentUser(call.arg) /\ FetchSucceeded) =>
              LET all == EventsIn(call.arg)
                  N == Cardinality(all)
              IN  /\ call.result.total_scans = IF N < ScanLimit THEN N ELSE ScanLimit
                  /\ Cardinality(Fetched) = call.result.total_scans
                  /\ Fetched \subseteq {scan_events[i].id : i \in all}
                  /\ \A i \in all : \A j \in all :
                        (scan_events[i].id \in Fetched /\ scan_events[j].id \notin Fetched)
                            => ~LaterScan(scan_events[j], scan_events[i])

\* more events than the limit, and the oldest is left out
C16_Witness ==
    /\ Returned
    /\ OwnedByCurrentUser(call.arg) /\ FetchSucceeded
    /\ Cardinality(EventsIn(call.arg)) > ScanLimit
    /\ call.result.total_scans = ScanLimit
    /\ \E i \in EventsIn(call.arg) :
          /\ scan_events[i].id \notin Fetched
          /\ \A k \in 1..Len(call.events) : LaterScan(call.events[k], scan_events[i])

\* the day key of an event
DayKey(ev) == IF ev.scanned_at = <<>> THEN Unknown ELSE SubSeq(ev.scanned_at, 1, 10)

\* the number of k among the keys of the fetched events
CountOf(eventKeys, k) ==
    Cardinality({i \in 1..Len(eventKeys) : eventKeys[i] = k})

DayKeys == [i \in 1..Len(call.events) |-> DayKey(call.events[i])]

\* C17: scans_by_day has exactly one entry per distinct day key of the fetched
\* events (the first 10 characters of scanned_at, or "unknown" when it is
\* missing), each with the number of fetched events of that key, in strictly
\* ascending order of the date string.
C17_ScansByDay ==
    Returned =>
        LET byDay == call.result.scans_by_day
            days == {DayKeys[i] : i \in 1..Len(DayKeys)}
        IN  /\ {byDay[i].date : i \in 1..Len(byDay)} = days
            /\ Len(byDay) = Cardinality(days)
            /\ \A i \in 1..Len(byDay) : byDay[i].count = CountOf(DayKeys, byDay[i].date)
            /\ \A i \in 1..Len(byDay) : \A j \in 1..Len(byDay) :
                  i < j => localeCompare(byDay[i].date, byDay[j].date) < 0

\* three fetched events, two on the later day and one on the earlier, fetched
\* latest first and listed earliest first
C17_Witness ==
    /\ Returned
    /\ Len(call.events) = 3
    /\ Len(call.result.scans_by_day) = 2
    /\ call.result.scans_by_day[1].count = 1
    /\ call.result.scans_by_day[2].count = 2
    /\ DayKey(call.events[1]) = call.result.scans_by_day[2].date
    /\ call.result.scans_by_day[2].date # Unknown

NullAsUnknown(v) == IF v = Null THEN "Unknown" ELSE v
DeviceKeys == [i \in 1..Len(call.events) |-> NullAsUnknown(call.events[i].device_type)]
OsKeys == [i \in 1..Len(call.events) |-> NullAsUnknown(call.events[i].os)]
CountryKeys == [i \in 1..Len(call.events) |-> NullAsUnknown(call.events[i].country)]

\* a grouping of the fetched events by their keys: one entry per value, the
\* counts right and non-increasing
GroupedBy(keys, counts, eventKeys) ==
    LET values == {eventKeys[i] : i \in 1..Len(eventKeys)}
    IN  /\ Len(keys) = Cardinality(values)
        /\ {keys[i] : i \in 1..Len(keys)} = values
        /\ \A i \in 1..Len(keys) : counts[i] = CountOf(eventKeys, keys[i])
        /\ \A i \in 1..Len(keys) : \A j \in 1..Len(keys) :
              i < j => counts[i] >= counts[j]

\* C18: scans_by_device, scans_by_os and scans_by_country each have one entry
\* per distinct value of the field among the fetched events, a null counted
\* under "Unknown" together with the literal "Unknown", and each list is in
\* non-increasing order of count.
C18_Groupings ==
    Returned =>
        LET dev == call.result.scans_by_device
            os == call.result.scans_by_os
            cty == call.result.scans_by_country
        IN  /\ GroupedBy([i \in 1..Len(dev) |-> dev[i].device_type],
                         [i \in 1..Len(dev) |-> dev[i].count], DeviceKeys)
            /\ GroupedBy([i \in 1..Len(os) |-> os[i].os],
                         [i \in 1..Len(os) |-> os[i].count], OsKeys)
            /\ GroupedBy([i \in 1..Len(cty) |-> cty[i].country],
                         [i \in 1..Len(cty) |-> cty[i].count], CountryKeys)

\* a null device_type and a literal "Unknown" are counted together, and the
\* entry that was made second comes first, its count being greater
C18_Witness ==
    /\ Returned
    /\ Len(call.events) = 3
    /\ call.events[1].device_type = "Mobile"
    /\ \E i, j \in 2..3 :
          call.events[i].device_type = Null /\ call.events[j].device_type = "Unknown"
    /\ call.result.scans_by_device =
          <<[device_type |-> "Unknown", count |-> 2],
            [device_type |-> "Mobile", count |-> 1]>>

NoData ==
    [total_scans |-> 0, scans_by_day |-> <<>>, scans_by_device |-> <<>>,
     scans_by_os |-> <<>>, scans_by_country |-> <<>>]

\* C20: a fetch failure surfaces as no data: with the store unconfigured, no
\* user signed in, the link not found for the user, or a store call failing,
\* getAnalyticsForCode returns total_scans = 0 and four empty groupings; every
\* call returns a ScanAnalytics.
C20_FailureIsNoData ==
    Returned =>
        /\ DOMAIN call.result = DOMAIN NoData
        /\ call.result.total_scans \in 0..ScanLimit
        /\ (~OwnedByCurrentUser(call.arg) \/ ~FetchSucceeded) => call.result = NoData

\* the scan-event query of an owned link with events fails
C20_Witness ==
    /\ Returned
    /\ OwnedByCurrentUser(call.arg)
    /\ env.key # ""
    /\ call.queryError /\ ~call.linkError
    /\ Cardinality(EventsIn(call.arg)) >= 2
    /\ call.result = NoData

RECURSIVE SumOfCounts(_)
SumOfCounts(entries) ==
    IF entries = <<>> THEN 0 ELSE Head(entries).count + SumOfCounts(Tail(entries))

\* C28: in every result of getAnalyticsForCode the counts of each of the four
\* groupings add up to total_scans, and every entry has a count of 1 at least.
C28_CountsAddUp ==
    Returned =>
        \A entries \in {call.result.scans_by_day, call.result.scans_by_device,
                        call.result.scans_by_os, call.result.scans_by_country} :
            /\ SumOfCounts(entries) = call.result.total_scans
            /\ \A i \in 1..Len(entries) : entries[i].count >= 1

\* three events in groupings of two entries, one of them counting two
C28_Witness ==
    /\ Returned
    /\ call.result.total_scans = 3
    /\ Len(call.result.scans_by_day) = 2
    /\ Len(call.result.scans_by_device) = 2
    /\ call.result.scans_by_device[1].count = 2
    /\ Len(call.result.scans_by_country) = 1

\* the links of the current user and the scan events of the requested link
OwnLinks == {link \in spark_codes : link.user_id = auth.user}
OwnEvents(sparkCodeId) ==
    LET Test(e) == e.spark_code_id = sparkCodeId
    IN  SelectSeq(scan_events, Test)

\* C29: analytics are isolated per owner and per link: the fetched events all
\* belong to the requested link, events are fetched only when that link is
\* owned by the signed-in user, the result for another user's link is the
\* empty analytics however many events that link has, and the result is the
\* one obtained with the other users' links and the other links' events
\* removed from the tables.
C29_Isolation ==
    Returned =>
        /\ \A k \in 1..Len(call.events) : call.events[k].spark_code_id = call.arg
        /\ call.events # <<>> => OwnedByCurrentUser(call.arg)
        /\ ~OwnedByCurrentUser(call.arg) => call.result = NoData
        /\ call.result =
              ScanAnalyticsOf(
                  getScanEventsForCode(env, auth, OwnLinks, OwnEvents(call.arg),
                                       call.arg, call.linkError, call.queryError),
                  <<>>)

\* the owner's analytics of link 1 while another user's link has events too
C29_Witness ==
    /\ Returned
    /\ call.arg = 1
    /\ OwnedByCurrentUser(1) /\ FetchSucceeded
    /\ EventsIn(2) # {}
    /\ Cardinality(EventsIn(1)) = 2
    /\ call.result.total_scans = 2
    /\ Len(scan_events) > 2

----------------------------------------------------------------------------
(* Properties of createSparkCode (checked under SpecCreate) *)

PersistedCodes == {row.short_code : row \in spark_codes}

\* C9: short codes are unique across all links after any interleaving of
\* createSparkCode calls, concurrent ones included.
C9_UniqueShortCodes ==
    \A r1, r2 \in spark_codes : r1.short_code = r2.short_code => r1 = r2

\* the step in which ensureUniqueShortCode returns to createSparkCode
ReturnStep(c) == creator[c].pc = "check" /\ creator'[c].pc = "insert"

NoConcurrentCreation(c) ==
    \A q \in Creators \ {c} : creator[q].pc \notin {"check", "insert"}

C11_BoundedLookups ==
    /\ [](\A c \in Creators :
            creator[c].pc = "check" =>
                /\ creator[c].lookups = creator[c].attempts + 1
                /\ creator[c].lookups <= 10
                /\ Len(creator[c].candidate) = 8
                /\ ENABLED CheckReturns(c))
    /\ [][\A c \in Creators :
            /\ (creator[c].pc = "check" /\ creator'[c].pc = "check"
                                         /\ creator'[c] # creator[c])
                  => /\ creator'[c].attempts = creator[c].attempts + 1
                     /\ creator'[c].lookups = creator[c].lookups + 1
                     /\ creator[c].candidate \in PersistedCodes
            /\ ReturnStep(c)
                  => IF creator'[c].path = "fallback"
                     THEN /\ creator[c].lookups = 10
                          /\ creator[c].candidate \in PersistedCodes
                          /\ Len(creator'[c].shortCode) = 12
                     ELSE /\ creator'[c].shortCode = creator[c].candidate
                          /\ creator'[c].path \in {"free", "unchecked"}
                          /\ creator'[c].path = "free"
                                => creator[c].candidate \notin PersistedCodes]_vars

\* the budget is exhausted and the 12-character code is about to be inserted
C11_Witness ==
    \E c \in Creators :
        /\ creator[c].pc = "insert"
        /\ creator[c].path = "fallback"
        /\ Len(creator[c].shortCode) = 12
        /\ Cardinality(PersistedCodes) = 2

\* the step in which the insert of createSparkCode returns
InsertStep(c) == creator[c].pc = "insert" /\ creator'[c].pc # "insert"

\* C12: when the short code chosen for a new link is the short_code of a
\* persisted link at insert time, createSparkCode fails with an error and no
\* link row is added.
C12_CollisionFails ==
    [][\A c \in Creators :
          (InsertStep(c) /\ creator[c].shortCode \in PersistedCodes)
              => /\ creator'[c].pc = "failed"
                 /\ creator'[c].error # "none"
                 /\ spark_codes' = spark_codes]_vars

\* C27: in ensureUniqueShortCode a lookup that fails (more than one row
\* matches, or the store fails) is treated like a lookup that found no row:
\* the candidate is returned on that step, with no further attempt and no
\* further lookup; a candidate that is returned although a link has it was
\* returned by such a lookup.
C27_FailedLookupReturns ==
    [][\A c \in Creators :
          /\ (/\ creator[c].pc = "check" /\ creator'[c] # creator[c]
              /\ Cardinality({row \in spark_codes :
                     row.short_code = creator[c].candidate}) > 1)
                => /\ creator'[c].pc = "insert"
                   /\ creator'[c].shortCode = creator[c].candidate
                   /\ creator'[c].path = "unchecked"
          /\ (ReturnStep(c) /\ creator'[c].path = "unchecked")
                => /\ creator'[c].shortCode = creator[c].candidate
                   /\ creator[c].lookups = creator[c].attempts + 1
          /\ (ReturnStep(c) /\ creator'[c].path # "fallback"
                           /\ creator[c].candidate \in PersistedCodes)
                => creator'[c].path = "unchecked"]_vars

\* two links have the candidate, its lookup fails for that, and it is returned
C27_Witness ==
    \E c \in Creators :
        /\ creator[c].pc = "insert"
        /\ creator[c].path = "unchecked"
        /\ Cardinality({row \in spark_codes :
               row.short_code = creator[c].shortCode}) = 2

----------------------------------------------------------------------------
(* Properties of the library functions (checked under SpecLib) *)

\* the reference mapping: the rules in their order of precedence
ClassifyRules ==
    <<[token |-> "iphone", os |-> "iOS", device_type |-> "Mobile"],
      [token |-> "ipad", os |-> "iOS", device_type |-> "Tablet"],
      [token |-> "android", os |-> "Android", device_type |-> "Tablet"],
      [token |-> "windows", os |-> "Windows", device_type |-> "Desktop"],
      [token |-> "macintosh", os |-> "macOS", device_type |-> "Desktop"],
      [token |-> "linux", os |-> "Linux", device_type |-> "Desktop"]>>

\* the indices of the rules whose token the user-agent contains
Matching(ua) == {i \in 1..Len(ClassifyRules) : ClassifyRules[i].token \in ua}

\* C13: parseUserAgent is total and equals the first-match-wins mapping for
\* every combination of tokens: the rule of least index whose token is
\* present decides, Android being Mobile when the Mobile token is present,
\* and no rule matching gives (Unknown, Unknown).
C13_FirstMatchWins ==
    call.op = "parseUserAgent" =>
        LET ua == call.arg
            m == Matching(ua)
        IN  /\ DOMAIN call.result = {"device_type", "os"}
            /\ IF m = {}
               THEN call.result = [device_type |-> "Unknown", os |-> "Unknown"]
               ELSE LET rule == ClassifyRules[CHOOSE i \in m : \A j \in m : i <= j]
                    IN  /\ call.result.os = rule.os
                        /\ call.result.device_type =
                             IF rule.os = "Android" /\ "mobile" \in ua
                             THEN "Mobile" ELSE rule.device_type

\* iPad together with Macintosh is an iOS tablet
C13_Witness ==
    /\ call.op = "parseUserAgent"
    /\ {"ipad", "macintosh"} \subseteq call.arg
    /\ "iphone" \notin call.arg
    /\ call.result = [device_type |-> "Tablet", os |-> "iOS"]

\* the first comma-separated value of X-Forwarded-For, trimmed; empty when the
\* header is absent or yields nothing
ForwardedValue(xff) == IF xff = AbsentHeader THEN <<>> ELSE Trim(FirstField(xff))

\* C15: the client IP is the first comma-separated value of X-Forwarded-For,
\* trimmed, when that header yields a value; otherwise X-Real-IP; otherwise
\* "unknown"; a present but empty X-Forwarded-For falls back to X-Real-IP.
C15_ClientIpFallback ==
    call.op = "clientIp" =>
        LET xff == call.arg[1]
            xreal == call.arg[2]
        IN  call.result =
                IF ForwardedValue(xff) # <<>> THEN ForwardedValue(xff)
                ELSE IF xreal # AbsentHeader THEN xreal
                ELSE Unknown

----------------------------------------------------------------------------
(* Properties of updateSparkCode (checked under SpecLinks) *)

\* the link of the table with the id of row
SameLink(table, row) == {new \in table : new.id = row.id}

\* C22: a step never removes a link and never changes the short_code, id,
\* user_id or created_at of one; a link that changes is the one with the id
\* updateSparkCode was called with, it is owned by the current user, and only
\* its destination and activation columns differ.
C22_LinksKept ==
    [][\A row \in spark_codes :
         /\ Cardinality(SameLink(spark_codes', row)) = 1
         /\ \A new \in SameLink(spark_codes', row) :
              /\ new.short_code = row.short_code
              /\ new.user_id = row.user_id
              /\ new.created_at = row.created_at
              /\ new # row =>
                   /\ call'.op = "updateSparkCode"
                   /\ row.id = call'.arg
                   /\ row.user_id = getCurrentUserId(auth)
                   /\ new = call'.result
                   /\ \A f \in DOMAIN row :
                        new[f] # row[f] => f \in DOMAIN call'.updates]_vars

\* the first user has deactivated their link and changed its destination; it
\* keeps its short code
C22_Witness ==
    /\ call.op = "updateSparkCode"
    /\ call.error = "none"
    /\ call.arg = 1
    /\ getCurrentUserId(auth) = "u1"
    /\ call.result \in spark_codes
    /\ call.result.is_active = FALSE
    /\ call.result.destination_url = ""
    /\ call.result.short_code = generateShortCode(DefaultLength, [i \in 1..DefaultLength |-> 0])
    /\ Cardinality(spark_codes) = 2

----------------------------------------------------------------------------
(* Properties of the auth store (checked under SpecAuth) *)

\* status 'signIn' goes with a user and status 'signOut' with none
StatusMatchesUser ==
    /\ auth.status = "signIn" => auth.user # Null
    /\ auth.status = "signOut" => auth.user = Null

\* C30: status = 'signIn' implies a user and status = 'signOut' implies none,
\* and from the completion of a signOut until the next signIn or the
\* completion of a hydrate started after that signOut the store has no user:
\* a hydrate started before signOut was called does not restore the user.
C30_SignOutSticks ==
    /\ StatusMatchesUser
    /\ call.signedOut => auth.user = Null

\* the characters that are easily mistaken for one another
Confusable == {"0", "O", "1", "I", "l"}

\* C23: generateShortCode(n) returns exactly n characters, each one of the
\* alphabet, which has none of 0, O, 1, I and l; the codes generated for
\* createSparkCode have 8 characters (a candidate) or 12 (the fallback).
C23_LengthAndAlphabet ==
    /\ {CHARS[i] : i \in 1..Len(CHARS)} \cap Confusable = {}
    /\ call.op \in {"generateShortCode", "candidate", "fallback"} =>
          /\ call.op = "generateShortCode" => Len(call.result) = call.arg
          /\ call.op = "candidate" => Len(call.result) = 8
          /\ call.op = "fallback" => Len(call.result) = 12
          /\ DOMAIN call.result = 1..Len(call.result)
          /\ \A i \in 1..Len(call.result) :
                /\ \E j \in 1..Len(CHARS) : call.result[i] = CHARS[j]
                /\ call.result[i] \notin Confusable

\* a code of two characters that ends with the last character of the alphabet
C23_Witness ==
    /\ call.op = "generateShortCode"
    /\ call.arg = 2
    /\ Len(call.result) = 2
    /\ call.result[2] = "9"

----------------------------------------------------------------------------
(* The scan events of the redirect handler (checked under Spec) *)

\* the classifier's result by the reference mapping
Classified(ua) ==
    IF Matching(ua) = {}
    THEN [device_type |-> "Unknown", os |-> "Unknown"]
    ELSE LET rule == ClassifyRules[CHOOSE i \in Matching(ua) :
                                      \A j \in Matching(ua) : i <= j]
         IN  [os |-> rule.os,
              device_type |-> IF rule.os = "Android" /\ "mobile" \in ua
                              THEN "Mobile" ELSE rule.device_type]

\* sixteen lowercase hexadecimal digits
IsHexPrefix(s) ==
    /\ Len(s) = 16
    /\ \A i \in 1..Len(s) : \E d \in 1..Len(HexDigits) : s[i] = HexDigits[d]

\* C24: every scan event the handler writes is well formed: spark_code_id is
\* the id of the existing link the request resolved to, device_type and os
\* are the classifier's result for the request's User-Agent, ip_hash is the
\* anonymizer's output for the client IP (the 16-digit hex prefix of its
\* digest, or "unknown"), never the raw IP, and country and city are null.
C24_WellFormedEvent ==
    [][\A r \in Reqs :
          (req[r].pc = "inserting" /\ Len(scan_events') = Len(scan_events) + 1)
          => LET ev == scan_events'[Len(scan_events')]
                 rq == req[r]
             IN  /\ ev.spark_code_id = rq.sparkCode.id
                 /\ \E link \in spark_codes :
                       /\ link.id = ev.spark_code_id
                       /\ link.short_code = rq.shortCode
                       /\ link.is_active
                 /\ ev.device_type = Classified(rq.ua).device_type
                 /\ ev.os = Classified(rq.ua).os
                 /\ IF rq.digestFailed
                    THEN ev.ip_hash = Unknown
                    ELSE /\ IsHexPrefix(ev.ip_hash)
                         /\ ev.ip_hash = hashIp(rq.clientIp, TRUE)
                         /\ ev.ip_hash # rq.clientIp
                 /\ ev.country = Null
                 /\ ev.city = Null]_vars

\* an event of an iPhone request with a digest of its forwarded address
C24_Witness ==
    \E i \in 1..Len(scan_events) :
        /\ scan_events[i].device_type = "Mobile"
        /\ scan_events[i].os = "iOS"
        /\ IsHexPrefix(scan_events[i].ip_hash)
        /\ scan_events[i].ip_hash = hashIp(<<"1", ".", "2">>, TRUE)
        /\ scan_events[i].country = Null

====
